---- MODULE Spec2Model ----
(***************************************************************************)
(* Model of the audio-mixing route src/src/app/api/combine-audio/route.ts: *)
(* the POST handler, generatePollyTTS, downloadAudio and createSilentAudio. *)
(*                                                                         *)
(* Numbers.  Durations are whole seconds.  ttsSpeed is held in thousandths *)
(* (0.5 is 500, 4.0 is 4000), so every quotient the code takes is an exact *)
(* rational here.  Volumes are held in tenths.                             *)
(*                                                                         *)
(* Strings.  A string is [pre, len]: the literal prefix the code inspects  *)
(* (startsWith, ===) and its length in characters.                         *)
(*                                                                         *)
(* Each action is one resumption of the async handler: the work between    *)
(* two awaits, together with the external call it awaits.                  *)
(*                                                                         *)
(* Spec runs one invocation on any request of Requests.  ConcSpec runs two *)
(* invocations together on the requests of ConcRequests; they share the    *)
(* clock, the temp directory (fs) and the bucket (s3).                     *)
(*                                                                         *)
(* trace[p] is a history variable: the external calls invocation p made.   *)
(*                                                                         *)
(* env is the behaviour of the collaborators (engine, provider, bucket,    *)
(* network, file system): "any" lets every call succeed or fail, and       *)
(* "reliable" is one deterministic environment, in which a call succeeds   *)
(* whenever the files it needs are there.  DetSpec is ConcSpec under it.   *)
(***************************************************************************)
EXTENDS Integers, Sequences, FiniteSets, TLC

VARIABLES atempo, env, now, fs, s3, pc, req, loc, resp, trace

vars == <<atempo, env, now, fs, s3, pc, req, loc, resp, trace>>

\* Clock values Date.now() can return during a run are 0..MaxClock.
MaxClock == 2

\* The speeds getAtempoFilters is applied to, in thousandths: 0 ..
\* MaxSpeedInput.
MaxSpeedInput == 4500

\* Invocations of POST that may be in flight together.
Procs == {1, 2}

----------------------------------------------------------------------------
\* Strings

Str(pre, len) == [pre |-> pre, len |-> len]

EmptyStr == Str("", 0)

\* The literal 'present' of route.ts line 153.
Present == Str("present", 7)

\* 900 / ttsDuration repetitions, route.ts line 136.
SafetyFloor == 900

\* const trackDuration = 900, route.ts line 192.
FixedTrackDuration == 900

\* MAX_TEXT_LENGTH, route.ts line 222.
MAX_TEXT_LENGTH == 3000

\* 0.5 and 4.0 of route.ts line 128, in thousandths.
MinSpeed == 500

MaxSpeed == 4000

\* 48000 samples per second in aloop's size, route.ts line 188.
SampleRate == 48000

\* url.startsWith('data:'), route.ts line 268.
StartsWithData(s) == s.pre \in {"data:audio", "data:text"} /\ s.len > 0

\* text.startsWith('data:audio'), route.ts line 138.
StartsWithDataAudio(s) == s.pre = "data:audio" /\ s.len > 0

\* Math.ceil(a / b) for integers a, b with b # 0.  A result of -0 is 0 here:
\* String.prototype.repeat and the template literal treat -0 as 0.
CeilDiv(a, b) ==
  IF b > 0 THEN -((-a) \div b) ELSE -(a \div (-b))

\* text.repeat(n) for n >= 0, route.ts line 136 ("" when n is 0).
Repeat(s, n) ==
  IF n = 0 \/ s.len = 0 THEN EmptyStr ELSE Str(s.pre, s.len * n)

\* A slip: the speed is passed on as one step.
getAtempoFiltersSingle(speed, tieUp) == <<speed>>

\* Math.min(Math.max(speed, 0.5), 4.0), route.ts line 49.
Clamp(speed) ==
  IF speed < MinSpeed THEN MinSpeed
  ELSE IF speed > MaxSpeed THEN MaxSpeed ELSE speed

\* The two while loops of route.ts lines 52-61 on the speed num / den:
\* atempo=2.0 and a halving while it exceeds 2.0, then atempo=0.5 and a
\* doubling while it is below 0.5.
RECURSIVE Decompose(_, _, _)
Decompose(filters, num, den) ==
  IF num > 2 * den THEN Decompose(Append(filters, 2000), num, 2 * den)
  ELSE IF 2 * num < den THEN Decompose(Append(filters, 500), 2 * num, den)
  ELSE [filters |-> filters, num |-> num, den |-> den]

\* (num / den).toFixed(2), route.ts line 65, in thousandths: the nearest
\* hundredth.  A decimal exactly half way between two hundredths is stored
\* as a double just above or just below it, so either neighbour can come
\* out; tieUp picks.
ToFixed2(num, den, tieUp) ==
  LET h == (100 * num) \div den
      r == 100 * num - h * den
  IN IF 2 * r > den \/ (2 * r = den /\ tieUp) THEN 10 * (h + 1) ELSE 10 * h

\* getAtempoFilters(speed), route.ts lines 45-69, speed in thousandths.
getAtempoFilters(speed, tieUp) ==
  LET d == Decompose(<<>>, Clamp(speed), 1000)
  IN IF d.num # d.den
       THEN Append(d.filters, ToFixed2(d.num, d.den, tieUp))
       ELSE d.filters

----------------------------------------------------------------------------
\* Requests (the JSON body destructured at route.ts lines 85-93)

FieldNames ==
  {"text", "selectedBackingTrack", "ttsVolume", "backingTrackVolume",
   "trackDuration", "ttsSpeed", "ttsDuration"}

\* The fields tested with typeof ... !== 'number', route.ts lines 109-113.
NumericFields ==
  {"ttsVolume", "backingTrackVolume", "trackDuration", "ttsSpeed",
   "ttsDuration"}

\* missing: the fields absent from the JSON body (undefined).  wrongType:
\* the fields present with a truthy value of another typeof than the handler
\* requires (a number for a string, a string for a number).  The values
\* given here for such fields are not read.
Request(text, backing, tv, bv, T, speed, dur, missing, wrongType) ==
  [text |-> text, selectedBackingTrack |-> backing, ttsVolume |-> tv,
   backingTrackVolume |-> bv, trackDuration |-> T, ttsSpeed |-> speed,
   ttsDuration |-> dur, missing |-> missing, wrongType |-> wrongType]

InlineAudio == Str("data:audio", 40)

Texts == {InlineAudio, Str("", 100), Str("", 250), EmptyStr}

Backings == {Present, Str("https://", 30), Str("data:audio", 40)}

Volumes == {10}

TrackDurations == {600, 900, 1200}

Speeds == {400, 500, 1000, 3000, 4000, 5000}

Durations == {-1000, -900, 0, 30, 450, 1000}

BaseRequest == Request(InlineAudio, Present, 10, 10, 900, 1000, 30, {}, {})

Requests ==
  { Request(t, b, tv, bv, T, s, d, {}, {}) :
      t \in Texts, b \in Backings, tv \in Volumes, bv \in Volumes,
      T \in TrackDurations, s \in Speeds, d \in Durations }
  \cup { [BaseRequest EXCEPT !.missing = {f}] : f \in FieldNames }
  \cup { [BaseRequest EXCEPT !.wrongType = {f}] : f \in FieldNames }
  \cup { [BaseRequest EXCEPT ![f] = -5] : f \in NumericFields }

\* The requests of the concurrent specification: inline speech over silence,
\* and synthesized speech over a fetched backing track.
ConcRequests ==
  { BaseRequest,
    Request(Str("", 200), Str("https://", 30), 10, 10, 900, 1000, 450,
            {}, {}) }

----------------------------------------------------------------------------
\* Files, storage objects, references, engine commands

\* A slip: the file name is made of the time token alone.
PathOfTokenOnly(prefix, ts) == [prefix |-> "audio", ts |-> ts]

\* path.join(os.tmpdir(), `${prefix}_${Date.now()}.mp3`), route.ts lines
\* 164 and 267.
Path(prefix, ts) == [prefix |-> prefix, ts |-> ts]

NoPath == Path("", 0)

\* path.join(os.tmpdir(), 'silent.mp3'), route.ts line 155: no time token.
SilentPath == Path("silent", 0)

\* `tts_${Date.now()}_${audioUrls.length}.mp3`, route.ts line 249.
Key(ts, idx) == [ts |-> ts, idx |-> idx]

\* A reference handed to downloadAudio: the caller's string (data), or the
\* comma-join of the URLs of the uploaded objects (urls), route.ts line 263.
Ref(data, urls) == [data |-> data, urls |-> urls]

NoRef == Ref(EmptyStr, <<>>)

Command(ttsPath, backingPath, tempo, tv, bv, loop, size, trimEnd, out) ==
  [ttsPath |-> ttsPath, backingPath |-> backingPath, tempo |-> tempo,
   ttsVolume |-> tv, backingTrackVolume |-> bv, loop |-> loop, size |-> size,
   trimEnd |-> trimEnd, out |-> out]

NoCommand == Command(NoPath, NoPath, <<>>, 0, 0, 0, 0, 0, NoPath)

\* One external call, as the history variable trace records it.
Call(op, path, n, ref, cmd) ==
  [op |-> op, path |-> path, n |-> n, ref |-> ref, cmd |-> cmd]

\* What a file or object holds, as far as a deterministic provider, server
\* and engine determine it: the speech (the text spoken or decoded, and the
\* number of the chunk when synthesized), the backing track (the caller's
\* reference, or the length of the silence) and, for a mix, the filter
\* graph applied.  No path or key is part of it.
Audio(speech, chunk, backing, silence, graph) ==
  [speech |-> speech, chunk |-> chunk, backing |-> backing,
   silence |-> silence, graph |-> graph]

NoAudio == Audio(EmptyStr, 0, EmptyStr, 0, NoCommand)

\* A buffer holds what was read, each with the invocation that wrote it;
\* none before the read.
NoBuffer == {}

InitLoc ==
  [textToGenerate |-> EmptyStr, textChunks |-> <<>>, ttsAudioUrl |-> NoRef,
   audioUrls |-> <<>>,
   ttsAudioPath |-> NoPath, backingTrackPath |-> NoPath, outputPath |-> NoPath,
   mixedAudioBuffer |-> NoBuffer, pending |-> {}, unlinkFailed |-> FALSE,
   created |-> {}]

NoResp == [status |-> 0, error |-> "", details |-> "", body |-> NoBuffer]

----------------------------------------------------------------------------
\* Pure parts of the handler

\* text.substring(0, 50) in the log call of route.ts line 96 throws a
\* TypeError when text is truthy and not a string.
LogThrows(r) == "text" \in r.wrongType

\* The typeof / falsy test of route.ts lines 106-114.
ParametersValid(r) ==
  /\ r.missing = {}
  /\ r.wrongType = {}
  /\ r.text.len > 0
  /\ r.selectedBackingTrack.len > 0

\* route.ts line 128.
SpeedOutOfRange(r) == r.ttsSpeed < MinSpeed \/ r.ttsSpeed > MaxSpeed

\* route.ts line 132.
DurationExceedsTrack(r) == r.ttsDuration > r.trackDuration

\* text.repeat(Math.ceil(900 / ttsDuration)), route.ts line 136, throws a
\* RangeError when the count is Infinity (ttsDuration = 0) or negative.
RepeatThrows(r) ==
  r.ttsDuration = 0 \/ CeilDiv(SafetyFloor, r.ttsDuration) < 0

\* A slip: the text is passed on as it came.
TextToGenerateOnce(r) == r.text

TextToGenerate(r) == Repeat(r.text, CeilDiv(SafetyFloor, r.ttsDuration))

\* A slip: the loop stops before a last chunk shorter than the maximum.
NumChunksWhole(text) == text.len \div MAX_TEXT_LENGTH

\* The number of slices the loop of route.ts lines 227-229 pushes.
NumChunks(text) == CeilDiv(text.len, MAX_TEXT_LENGTH)

\* textChunks, route.ts lines 226-229: chunk i is text.slice(from, to), the
\* characters at the positions from .. to - 1 (slice stops at the end).
TextChunks(text) ==
  [i \in 1..NumChunks(text) |->
     [from |-> (i - 1) * MAX_TEXT_LENGTH,
      to |-> IF i * MAX_TEXT_LENGTH < text.len THEN i * MAX_TEXT_LENGTH
             ELSE text.len]]

\* A slip: only the first URL is returned.
FirstUrl(audioUrls) ==
  Ref(EmptyStr, IF audioUrls = <<>> THEN <<>> ELSE <<Head(audioUrls)>>)

\* audioUrls.join(','), route.ts line 263.
JoinUrls(audioUrls) == Ref(EmptyStr, audioUrls)

\* selectedBackingTrack === 'present', route.ts line 153.
NoTrackSelected(r) == r.selectedBackingTrack = Present

\* A slip: the constant of line 192 handed to createSilentAudio.
SilenceDurationFixed(r) == FixedTrackDuration

\* The duration handed to createSilentAudio, route.ts line 157.
SilenceDuration(r) == r.trackDuration

\* Math.ceil(trackDuration / (ttsDuration / ttsSpeed)), route.ts line 185,
\* with ttsSpeed in thousandths; ttsDuration is not 0 where this is reached.
LoopCount(trackDuration, ttsDuration, ttsSpeed) ==
  CeilDiv(trackDuration * ttsSpeed, ttsDuration * 1000)

\* The tempo steps of the filter graph: the single atempo=${ttsSpeed} of
\* route.ts line 188.
TempoChain(ttsSpeed) == <<ttsSpeed>>

\* The command mixAudio builds (route.ts lines 183-188) from the arguments
\* of the call at line 194, where trackDuration is the constant of line 192.
MixCommand(r, l, out) ==
  Command(l.ttsAudioPath, l.backingTrackPath, TempoChain(r.ttsSpeed),
          r.ttsVolume, r.backingTrackVolume,
          LoopCount(FixedTrackDuration, r.ttsDuration, r.ttsSpeed),
          r.ttsDuration * SampleRate, FixedTrackDuration, out)

\* fetch(url) of an empty string cannot be parsed as a URL and throws.
FetchableUrl(ref) == ref.urls # <<>> \/ ref.data.len > 0

----------------------------------------------------------------------------
\* State

\* fs and s3 hold one entry per existing file or object: its name, the
\* invocation that wrote it and what it holds.
Exists(f) == \E e \in fs : e.path = f

\* fs.writeFile / the engine creating f: the file holds p's bytes b afterwards.
WriteFile(f, p, b) ==
  {e \in fs : e.path # f} \cup {[path |-> f, by |-> p, bytes |-> b]}

RemoveFile(f) == {e \in fs : e.path # f}

\* The bytes fs.readFile(f) returns.
Content(f) ==
  {[by |-> e.by, bytes |-> e.bytes] : e \in {x \in fs : x.path = f}}

\* What the engine decodes from input file f.
FileBytes(f) == (CHOOSE e \in fs : e.path = f).bytes

\* A slip: the upload replaces what the bucket held.
PutObjectOnly(k, p, b) == {[key |-> k, by |-> p, bytes |-> b]}

PutObject(k, p, b) ==
  {e \in s3 : e.key # k} \cup {[key |-> k, by |-> p, bytes |-> b]}

\* The body of a successful GET of ref: the caller's reference names its
\* own audio, the URL of one uploaded object names that object, and a
\* comma-join of several URLs names no object.
FetchedBytes(ref, prefix) ==
  IF ref.urls = <<>>
    THEN IF prefix = "tts" THEN Audio(ref.data, 0, EmptyStr, 0, NoCommand)
         ELSE Audio(EmptyStr, 0, ref.data, 0, NoCommand)
  ELSE IF Len(ref.urls) = 1 /\ \E e \in s3 : e.key = ref.urls[1]
    THEN (CHOOSE e \in s3 : e.key = ref.urls[1]).bytes
  ELSE NoAudio

\* What the engine writes for command c from the inputs it decodes.
MixedBytes(c) ==
  LET speech == FileBytes(c.ttsPath)
      backing == FileBytes(c.backingPath)
  IN Audio(speech.speech, speech.chunk, backing.backing, backing.silence,
           [c EXCEPT !.ttsPath = NoPath, !.backingPath = NoPath,
                     !.out = NoPath])

\* The outcomes the environment allows an external call, of those it has.
Outcomes(all) == IF env = "reliable" THEN {"ok"} ELSE all

\* The same for a call that either succeeds or fails.
Oks == IF env = "reliable" THEN {TRUE} ELSE BOOLEAN

\* getAtempoFilters has not been called (the handler never calls it).
NoAtempo == [speed |-> 0, filters |-> <<>>, returned |-> FALSE]

InitWith(active, R, e) ==
  /\ atempo = NoAtempo
  /\ env = e
  /\ now = 0
  /\ fs = {}
  /\ s3 = {}
  /\ pc = [p \in Procs |-> IF p \in active THEN "probe" ELSE "off"]
  /\ req \in [Procs -> R]
  /\ \A p \in Procs \ active : req[p] = BaseRequest
  /\ loc = [p \in Procs |-> InitLoc]
  /\ resp = [p \in Procs |-> NoResp]
  /\ trace = [p \in Procs |-> << >>]

\* One invocation, any request.
Init == InitWith({1}, Requests, "any")

\* Two invocations in flight together.
ConcInit == InitWith(Procs, ConcRequests, "any")

\* Two invocations in flight together, deterministic collaborators.
DetInit == InitWith(Procs, ConcRequests, "reliable")

Log(p, c) == [trace EXCEPT ![p] = Append(@, c)]

\* return NextResponse.json(..., { status: 400 }), route.ts line 124.
Reject(p) ==
  /\ resp' = [resp EXCEPT ![p] =
       [status |-> 400, error |-> "Invalid or missing audio parameters.",
        details |-> "", body |-> NoBuffer]]
  /\ pc' = [pc EXCEPT ![p] = "done"]

\* The catch block, route.ts lines 215-218.
Catch(p, message) ==
  /\ resp' = [resp EXCEPT ![p] =
       [status |-> 500, error |-> "Internal Server Error",
        details |-> message, body |-> NoBuffer]]
  /\ pc' = [pc EXCEPT ![p] = "done"]

\* The success response, route.ts lines 209-214.
Respond(p, buffer) ==
  /\ resp' = [resp EXCEPT ![p] =
       [status |-> 200, error |-> "", details |-> "", body |-> buffer]]
  /\ pc' = [pc EXCEPT ![p] = "done"]

----------------------------------------------------------------------------
\* The handler, one action per resumption

\* exec('ffmpeg -version'), route.ts lines 74-83.
Probe(p) ==
  /\ pc[p] = "probe"
  /\ trace' = Log(p, Call("probe", NoPath, 0, NoRef, NoCommand))
  /\ \E ok \in Oks :
       IF ok THEN /\ pc' = [pc EXCEPT ![p] = "validate"]
                  /\ UNCHANGED resp
             ELSE Catch(p, "ffmpeg -version failed")
  /\ UNCHANGED <<atempo, env, now, fs, s3, req, loc>>

\* request.json() and the synchronous code up to the first await of the
\* speech step, route.ts lines 85-148.
Validate(p) ==
  /\ pc[p] = "validate"
  /\ LET r == req[p] IN
       IF LogThrows(r)
         THEN Catch(p, "text.substring is not a function") /\ UNCHANGED <<loc, trace>>
       ELSE IF ~ParametersValid(r) THEN Reject(p) /\ UNCHANGED <<loc, trace>>
       ELSE IF SpeedOutOfRange(r)
         THEN Catch(p, "TTS speed must be between 0.5x and 4.0x.")
              /\ UNCHANGED <<loc, trace>>
       ELSE IF DurationExceedsTrack(r)
         THEN Catch(p, "TTS duration cannot exceed track duration.")
              /\ UNCHANGED <<loc, trace>>
       ELSE IF RepeatThrows(r)
         THEN Catch(p, "Invalid count value") /\ UNCHANGED <<loc, trace>>
       ELSE IF StartsWithDataAudio(r.text)
         THEN /\ loc' = [loc EXCEPT ![p].textToGenerate = TextToGenerate(r),
                                    ![p].ttsAudioUrl = Ref(r.text, <<>>)]
              /\ pc' = [pc EXCEPT ![p] = "fetchTts"]
              /\ UNCHANGED <<resp, trace>>
       ELSE /\ loc' = [loc EXCEPT
                   ![p].textToGenerate = TextToGenerate(r),
                   ![p].textChunks = TextChunks(TextToGenerate(r))]
            /\ trace' = Log(p, Call("synthesize", NoPath, 0,
                                    Ref(TextToGenerate(r), <<>>), NoCommand))
            /\ pc' = [pc EXCEPT ![p] = "synth"]
            /\ UNCHANGED resp
  /\ UNCHANGED <<atempo, env, now, fs, s3, req>>

\* One iteration of the loop of generatePollyTTS, route.ts lines 231-261:
\* polly.send, then the upload of the chunk's audio.
SynthChunk(p) ==
  /\ pc[p] = "synth"
  /\ Len(loc[p].audioUrls) < Len(loc[p].textChunks)
  /\ LET idx == Len(loc[p].audioUrls)
         k == Key(now, idx)
         chunk == loc[p].textChunks[idx + 1]
         text == Str(loc[p].textToGenerate.pre, chunk.to - chunk.from)
         send == Call("polly", NoPath, idx, Ref(text, <<>>), NoCommand)
         put == Call("s3put", NoPath, idx, NoRef, NoCommand)
     IN \E out \in Outcomes({"ok", "sendThrows", "noStream", "putThrows"}) :
          CASE out = "ok" ->
                 /\ trace' = [trace EXCEPT ![p] = @ \o <<send, put>>]
                 /\ s3' = PutObject(k, p, Audio(loc[p].textToGenerate, idx + 1,
                                              EmptyStr, 0, NoCommand))
                 /\ loc' = [loc EXCEPT ![p].audioUrls = Append(@, k)]
                 /\ UNCHANGED <<pc, resp>>
            [] out = "sendThrows" ->
                 /\ trace' = Log(p, send)
                 /\ Catch(p, "Polly request failed")
                 /\ UNCHANGED <<s3, loc>>
            [] out = "noStream" ->
                 /\ trace' = Log(p, send)
                 /\ Catch(p, "Failed to generate audio with Polly")
                 /\ UNCHANGED <<s3, loc>>
            [] out = "putThrows" ->
                 /\ trace' = [trace EXCEPT ![p] = @ \o <<send, put>>]
                 /\ Catch(p, "S3 upload failed")
                 /\ UNCHANGED <<s3, loc>>
  /\ UNCHANGED <<atempo, env, now, fs, req>>

\* return audioUrls.join(','), route.ts line 263.
SynthReturn(p) ==
  /\ pc[p] = "synth"
  /\ Len(loc[p].audioUrls) = Len(loc[p].textChunks)
  /\ loc' = [loc EXCEPT ![p].ttsAudioUrl = JoinUrls(loc[p].audioUrls)]
  /\ pc' = [pc EXCEPT ![p] = "fetchTts"]
  /\ UNCHANGED <<atempo, env, now, fs, s3, req, resp, trace>>

\* downloadAudio(ref, prefix), route.ts lines 266-294, called by invocation p
\* to fill loc[p][field]; next is where the caller resumes.  An entry
\* "download" records the call itself (its path carries only the prefix),
\* "fetch" the network request and "write" the fs.writeFile.
DownloadAudio(p, ref, prefix, field, next) ==
  LET tempPath == Path(prefix, now)
      called == Call("download", Path(prefix, 0), 0, ref, NoCommand)
      get == Call("fetch", NoPath, 0, ref, NoCommand)
      write == Call("write", tempPath, 0, ref, NoCommand)
      Stored ==
        /\ fs' = WriteFile(tempPath, p, FetchedBytes(ref, prefix))
        /\ loc' = [loc EXCEPT ![p][field] = tempPath,
                              ![p].created = @ \cup {tempPath}]
        /\ pc' = [pc EXCEPT ![p] = next]
        /\ UNCHANGED resp
      Failed ==
        /\ Catch(p, "Failed to download " \o prefix \o " audio")
        /\ UNCHANGED <<fs, loc>>
  IN IF StartsWithData(ref.data)
       THEN /\ trace' = [trace EXCEPT ![p] = @ \o <<called, write>>]
            /\ Stored
     ELSE IF ~FetchableUrl(ref)
       THEN /\ trace' = Log(p, called)
            /\ Failed
     ELSE \E out \in Outcomes({"ok", "notOk", "throws"}) :
            IF out = "ok"
              THEN /\ trace' = [trace EXCEPT ![p] = @ \o <<called, get, write>>]
                   /\ Stored
              ELSE /\ trace' = [trace EXCEPT ![p] = @ \o <<called, get>>]
                   /\ Failed

\* await downloadAudio(ttsAudioUrl, 'tts'), route.ts line 148.
DownloadTts(p) ==
  /\ pc[p] = "fetchTts"
  /\ DownloadAudio(p, loc[p].ttsAudioUrl, "tts", "ttsAudioPath", "backing")
  /\ UNCHANGED <<atempo, env, now, s3, req>>

\* createSilentAudio(outputPath, duration), route.ts lines 297-300: the
\* engine is run without -y, so it does not replace a file that exists.
CreateSilentAudio(p, outputPath, duration) ==
  LET run == Call("silence", outputPath, duration, NoRef, NoCommand)
  IN /\ trace' = Log(p, run)
     /\ \E ok \in Oks :
          IF ok /\ ~Exists(outputPath)
            THEN /\ fs' = WriteFile(outputPath, p,
                         Audio(EmptyStr, 0, EmptyStr, duration, NoCommand))
                 /\ loc' = [loc EXCEPT ![p].backingTrackPath = outputPath,
                                       ![p].created = @ \cup {outputPath}]
                 /\ pc' = [pc EXCEPT ![p] = "mix"]
                 /\ UNCHANGED resp
            ELSE /\ Catch(p, "Command failed: ffmpeg -f lavfi")
                 /\ loc' = [loc EXCEPT ![p].backingTrackPath = outputPath]
                 /\ UNCHANGED fs

\* The backing-track step, route.ts lines 152-160.
ResolveBacking(p) ==
  /\ pc[p] = "backing"
  /\ IF NoTrackSelected(req[p])
       THEN CreateSilentAudio(p, SilentPath, SilenceDuration(req[p]))
       ELSE DownloadAudio(p, Ref(req[p].selectedBackingTrack, <<>>),
                          "backing", "backingTrackPath", "mix")
  /\ UNCHANGED <<atempo, env, now, s3, req>>

\* The exit status of the engine run of the mix, 0 for success.
ExitStatus(out, runnable) == IF out = "ok" /\ runnable THEN 0 ELSE 1

\* A slip: the engine run is not awaited, so its failure is not seen.
MixSucceedsUnchecked(out, runnable) == TRUE

\* await execAsync(command) resolves, route.ts line 190: the handler goes
\* on to read the output only then.
MixSucceeds(out, runnable) == ExitStatus(out, runnable) = 0

\* outputPath, mixAudio and the engine run it awaits, route.ts lines
\* 164-194.  The engine fails when an input is missing or the output exists
\* (no -y); a failed run may leave a partial output file behind.
Mix(p) ==
  /\ pc[p] = "mix"
  /\ LET outputPath == Path("combined", now)
         command == MixCommand(req[p], loc[p], outputPath)
         runnable == /\ Exists(loc[p].ttsAudioPath)
                     /\ Exists(loc[p].backingTrackPath)
                     /\ ~Exists(outputPath)
     IN \E out \in Outcomes({"ok", "fails", "failsPartial"}) :
          /\ trace' = Log(p, Call("mix", outputPath, ExitStatus(out, runnable),
                                   NoRef, command))
          /\ IF MixSucceeds(out, runnable)
               THEN /\ fs' = WriteFile(outputPath, p, MixedBytes(command))
                    /\ loc' = [loc EXCEPT ![p].outputPath = outputPath,
                                          ![p].created = @ \cup {outputPath}]
                    /\ pc' = [pc EXCEPT ![p] = "read"]
                    /\ UNCHANGED resp
             ELSE IF out = "failsPartial" /\ runnable
               THEN /\ fs' = WriteFile(outputPath, p, NoAudio)
                    /\ loc' = [loc EXCEPT ![p].outputPath = outputPath,
                                          ![p].created = @ \cup {outputPath}]
                    /\ Catch(p, "Command failed: ffmpeg -i")
               ELSE /\ loc' = [loc EXCEPT ![p].outputPath = outputPath]
                    /\ Catch(p, "Command failed: ffmpeg -i")
                    /\ UNCHANGED fs
  /\ UNCHANGED <<atempo, env, now, s3, req>>

\* fs.readFile(outputPath), route.ts line 198, and the three unlinks being
\* issued, lines 202-206.
ReadOutput(p) ==
  /\ pc[p] = "read"
  /\ trace' = Log(p, Call("read", loc[p].outputPath, 0, NoRef, NoCommand))
  /\ \E ok \in Oks :
       IF ok /\ Exists(loc[p].outputPath)
         THEN /\ loc' = [loc EXCEPT
                    ![p].mixedAudioBuffer = Content(loc[p].outputPath),
                    ![p].pending = {loc[p].ttsAudioPath,
                                    loc[p].backingTrackPath,
                                    loc[p].outputPath}]
              /\ pc' = [pc EXCEPT ![p] = "cleanup"]
              /\ UNCHANGED resp
         ELSE /\ Catch(p, "readFile failed")
              /\ UNCHANGED loc
  /\ UNCHANGED <<atempo, env, now, fs, s3, req>>

\* One fs.unlink of the Promise.all of route.ts lines 202-206 settling, in
\* any order; unlink fails on a file that is gone, and may fail otherwise.
\* When the last has settled the handler returns: the rejection of any
\* unlink rejects the Promise.all inside the try block.
Unlink(p) ==
  /\ pc[p] = "cleanup"
  /\ \E f \in loc[p].pending, ok \in Oks :
       LET removed == ok /\ Exists(f)
           failed == loc[p].unlinkFailed \/ ~removed
           left == loc[p].pending \ {f}
       IN /\ fs' = IF removed THEN RemoveFile(f) ELSE fs
          /\ loc' = [loc EXCEPT ![p].pending = left,
                                ![p].unlinkFailed = failed]
          /\ IF left # {} THEN UNCHANGED <<pc, resp>>
             ELSE IF failed THEN Catch(p, "unlink failed")
             ELSE Respond(p, loc[p].mixedAudioBuffer)
  /\ UNCHANGED <<atempo, env, now, s3, req, trace>>

\* Time passing between two readings of Date.now().
Tick ==
  /\ now < MaxClock
  /\ now' = now + 1
  /\ UNCHANGED <<atempo, env, fs, s3, pc, req, loc, resp, trace>>

Next ==
  \/ Tick
  \/ \E p \in Procs : Probe(p)
  \/ \E p \in Procs : Validate(p)
  \/ \E p \in Procs : SynthChunk(p)
  \/ \E p \in Procs : SynthReturn(p)
  \/ \E p \in Procs : DownloadTts(p)
  \/ \E p \in Procs : ResolveBacking(p)
  \/ \E p \in Procs : Mix(p)
  \/ \E p \in Procs : ReadOutput(p)
  \/ \E p \in Procs : Unlink(p)

Spec == Init /\ [][Next]_vars

ConcSpec == ConcInit /\ [][Next]_vars

DetSpec == DetInit /\ [][Next]_vars

\* getAtempoFilters on its own: any speed, then the call.
AtempoInit ==
  /\ atempo \in {[NoAtempo EXCEPT !.speed = s] : s \in 0..MaxSpeedInput}
  /\ env = "reliable"
  /\ now = 0
  /\ fs = {}
  /\ s3 = {}
  /\ pc = [p \in Procs |-> "off"]
  /\ req = [p \in Procs |-> BaseRequest]
  /\ loc = [p \in Procs |-> InitLoc]
  /\ resp = [p \in Procs |-> NoResp]
  /\ trace = [p \in Procs |-> << >>]

CallGetAtempoFilters ==
  /\ ~atempo.returned
  /\ \E tieUp \in BOOLEAN :
       atempo' = [atempo EXCEPT
                    !.filters = getAtempoFilters(atempo.speed, tieUp),
                    !.returned = TRUE]
  /\ UNCHANGED <<env, now, fs, s3, pc, req, loc, resp, trace>>

AtempoNext == CallGetAtempoFilters

AtempoSpec == AtempoInit /\ [][AtempoNext]_vars

----------------------------------------------------------------------------
\* Properties

\* The single-step range of the engine's atempo filter, in thousandths: the
\* 0.5 and 2.0 of route.ts lines 58 and 52.
AtempoMin == 500

AtempoMax == 2000

Finished(p) == pc[p] = "done"

\* The mix commands invocation p has handed to the engine.
MixCommands(p) ==
  {trace[p][i].cmd : i \in {j \in DOMAIN trace[p] : trace[p][j].op = "mix"}}

\* The positions of trace[p] that hold a call of kind op.
Calls(p, op) == {i \in DOMAIN trace[p] : trace[p][i].op = op}

\* The product of a chain of tempo steps, in thousandths.
RECURSIVE ChainProduct(_)
ChainProduct(chain) ==
  IF chain = <<>> THEN 1000
  ELSE (Head(chain) * ChainProduct(Tail(chain))) \div 1000

\* C1: once an invocation has returned, with any outcome, no temporary file
\* it created (speech, backing or silence, output) still exists.
C1_NoTempFileAfterReturn ==
  \A p \in Procs :
    Finished(p) => \A f \in loc[p].created : ~Exists(f)

\* C2: a request whose ttsSpeed is outside [0.5, 4.0] is rejected with a
\* validation error and no external call (probe, synthesis, storage write,
\* fetch, engine run) is made in that invocation.
C2_BadSpeedRejectedBeforeAnyCall ==
  \A p \in Procs :
    ( /\ pc[p] # "off"
      /\ "ttsSpeed" \notin req[p].missing \cup req[p].wrongType
      /\ SpeedOutOfRange(req[p]) )
    => /\ trace[p] = <<>>
       /\ Finished(p) => resp[p].status = 400

\* The failure the caller was told of is one of the validation failures.
ValidationFailure(p) ==
  \/ resp[p].error = "Invalid or missing audio parameters."
  \/ resp[p].details \in {"text.substring is not a function",
                          "TTS speed must be between 0.5x and 4.0x.",
                          "TTS duration cannot exceed track duration."}

\* C3: a failed invocation returns 400 exactly when the failure is a
\* validation failure and 500 exactly when it is any other failure.
C3_StatusMatchesFailureKind ==
  \A p \in Procs :
    (Finished(p) /\ resp[p].status # 200)
    => /\ resp[p].status \in {400, 500}
       /\ resp[p].status = 400 <=> ValidationFailure(p)

\* C4: every mix command applies the speech speed as tempo steps that each
\* lie in the engine's single-step range and multiply to ttsSpeed.
C4_TempoStepsWithinEngineRange ==
  \A p \in Procs : \A c \in MixCommands(p) :
    /\ \A i \in DOMAIN c.tempo : AtempoMin <= c.tempo[i] /\ c.tempo[i] <= AtempoMax
    /\ ChainProduct(c.tempo) = req[p].ttsSpeed

\* C5: for ttsDuration > 0 the loop count of the mix command is
\* ceil(T / (ttsDuration / ttsSpeed)) for the request's trackDuration T, is
\* positive, and loopCount * (ttsDuration / ttsSpeed) >= T.
C5_LoopCountCoversRequestedDuration ==
  \A p \in Procs : \A c \in MixCommands(p) :
    req[p].ttsDuration > 0
    => /\ c.loop = CeilDiv(req[p].trackDuration * req[p].ttsSpeed,
                           req[p].ttsDuration * 1000)
       /\ c.loop > 0
       /\ c.loop * req[p].ttsDuration * 1000
            >= req[p].trackDuration * req[p].ttsSpeed

\* C6: the trim end point of the mix command is the request's trackDuration.
C6_TrimEndIsRequestedDuration ==
  \A p \in Procs : \A c \in MixCommands(p) :
    c.trimEnd = req[p].trackDuration

\* The calls of downloadAudio invocation p made for the backing track.
BackingDownloads(p) ==
  {i \in Calls(p, "download") : trace[p][i].path.prefix = "backing"}

\* Invocation p has completed its backing-track step.
BackingResolved(p) == pc[p] \in {"mix", "read", "cleanup"}

\* C7: createSilentAudio runs only for the sentinel "present", with the
\* request's trackDuration, and then downloadAudio never runs for the
\* backing track; for any other value downloadAudio runs for the backing
\* track and createSilentAudio never runs.
C7_SilenceIffSentinel ==
  \A p \in Procs :
    LET sentinel == req[p].selectedBackingTrack = Str("present", 7)
        silences == Calls(p, "silence")
        downloads == BackingDownloads(p)
    IN /\ \A i \in silences :
            /\ sentinel
            /\ trace[p][i].n = req[p].trackDuration
       /\ downloads # {} => ~sentinel
       /\ silences = {} \/ downloads = {}
       /\ BackingResolved(p) =>
            /\ Cardinality(silences) = (IF sentinel THEN 1 ELSE 0)
            /\ Cardinality(downloads) = (IF sentinel THEN 0 ELSE 1)

\* C7 witness: silence was made for a sentinel request whose trackDuration
\* is not 900, and the backing step is complete.
C7_Witness ==
  \E p \in Procs :
    /\ req[p].selectedBackingTrack = Str("present", 7)
    /\ req[p].trackDuration = 1200
    /\ BackingResolved(p)
    /\ \E i \in Calls(p, "silence") : trace[p][i].n = 1200

\* The temporary file paths invocation p has allocated so far.
TempPaths(p) ==
  {loc[p].ttsAudioPath, loc[p].backingTrackPath, loc[p].outputPath} \ {NoPath}

\* C8: two invocations in flight together never use the same temporary
\* file path.
C8_TempPathsDisjoint ==
  \A p, q \in Procs :
    p # q => TempPaths(p) \cap TempPaths(q) = {}

\* C9: once the output has been read, the caller receives the mixed bytes
\* whatever the unlinks do; a cleanup failure is never the error returned.
C9_CleanupNeverChangesOutcome ==
  \A p \in Procs :
    Finished(p) =>
      /\ loc[p].mixedAudioBuffer # NoBuffer =>
           /\ resp[p].status = 200
           /\ resp[p].body = loc[p].mixedAudioBuffer
      /\ resp[p].details # "unlink failed"

\* C10: a request with ttsDuration <= 0 ends in an error, and neither the
\* synthesis provider nor the engine's mix command is invoked for it.
C10_NonPositiveDurationNeverPlanned ==
  \A p \in Procs :
    ( /\ "ttsDuration" \notin req[p].missing \cup req[p].wrongType
      /\ req[p].ttsDuration <= 0 )
    => /\ Calls(p, "polly") = {}
       /\ Calls(p, "mix") = {}
       /\ Finished(p) => resp[p].status # 200

\* Invocation p ended in the catch block on the engine-availability probe.
ProbeFailed(p) ==
  Finished(p) /\ resp[p].details = "ffmpeg -version failed"

\* The calls of invocation p to the synthesis adapter, the media fetcher,
\* the silence synthesizer and the mix engine.
PipelineCalls(p) ==
  {i \in DOMAIN trace[p] :
     trace[p][i].op \in {"synthesize", "polly", "s3put", "download",
                         "silence", "mix"}}

\* C11: a request with a negative ttsVolume, backingTrackVolume,
\* trackDuration, ttsSpeed or ttsDuration is answered with the validation
\* error (400) and none of the synthesis adapter, the media fetcher, the
\* silence synthesizer and the mix engine is invoked for it.
C11_NegativeNumberRejectedBeforeAnyCall ==
  \A p \in Procs :
    (~ProbeFailed(p) /\ \E f \in NumericFields : req[p][f] < 0) =>
      /\ PipelineCalls(p) = {}
      /\ Finished(p) => resp[p].status = 400

\* The bytes of the body invocation p returned, whoever wrote them.
ReturnedBytes(p) == {e.bytes : e \in resp[p].body}

\* C12: with deterministic collaborators, two invocations with identical
\* inputs end with the same outcome and the same output bytes.
C12_SameInputsSameOutcome ==
  \A p, q \in Procs :
    (req[p] = req[q] /\ Finished(p) /\ Finished(q)) =>
      /\ resp[p].status = resp[q].status
      /\ ReturnedBytes(p) = ReturnedBytes(q)

\* What the rounding of the last step can move the product by, in
\* thousandths: half a hundredth times the steps before it.
RoundingTolerance(chain) ==
  IF chain = <<>> THEN 0
  ELSE (5 * ChainProduct(SubSeq(chain, 1, Len(chain) - 1))) \div 1000

\* C13: getAtempoFilters returns steps that each lie in [0.5, 2.0] and
\* whose product is the speed clamped to [0.5, 4.0], up to the two-decimal
\* rounding of the last step; a speed of 1.0 gives the empty chain; a speed
\* below 0.5 gives the chain of 0.5 and one above 4.0 the chain of 4.0.
C13_AtempoChainDecomposesSpeed ==
  atempo.returned =>
    LET speed == atempo.speed
        chain == atempo.filters
        target == IF speed < 500 THEN 500
                  ELSE IF speed > 4000 THEN 4000 ELSE speed
        tol == RoundingTolerance(chain)
    IN /\ \A i \in DOMAIN chain : chain[i] \in AtempoMin..AtempoMax
       /\ ChainProduct(chain) - target \in (0 - tol)..tol
       /\ speed = 1000 => chain = <<>>
       /\ speed < 500 => chain = <<500>>
       /\ speed > 4000 => chain = <<2000, 2000>>

\* A speed above 2.0 was decomposed into two steps, the last one rounded.
C13_Witness ==
  /\ atempo.returned
  /\ atempo.speed = 3010
  /\ atempo.filters = <<2000, 1500>>

\* The text invocation p handed to generatePollyTTS, if it called it.
Synthesizing(p) == Calls(p, "synthesize") # {}

SynthesizedText(p) ==
  trace[p][CHOOSE i \in Calls(p, "synthesize") : TRUE].ref.data

\* generatePollyTTS has returned to invocation p.
SynthReturned(p) ==
  Synthesizing(p) /\ (pc[p] = "fetchTts" \/ Calls(p, "download") # {})

\* The provider calls and storage writes of invocation p, in order.
ChunkCalls(p) ==
  LET IsChunkCall(c) == c.op \in {"polly", "s3put"}
  IN SelectSeq(trace[p], IsChunkCall)

\* C14: the chunks of generatePollyTTS are contiguous, non-overlapping and
\* in order, each of 1 to 3000 characters, and together the whole text;
\* the calls are provider call, storage write, chunk by chunk in order, each
\* provider call with its chunk's characters; and what it returns is one
\* reference per chunk in chunk order.
C14_ChunksCoverTextInOrder ==
  \A p \in Procs :
    Synthesizing(p) =>
      LET text == SynthesizedText(p)
          chunks == loc[p].textChunks
          calls == ChunkCalls(p)
      IN /\ (chunks = <<>>) <=> (text.len = 0)
         /\ chunks # <<>> =>
              chunks[1].from = 0 /\ chunks[Len(chunks)].to = text.len
         /\ \A i \in DOMAIN chunks :
              /\ chunks[i].from < chunks[i].to
              /\ chunks[i].to - chunks[i].from <= 3000
              /\ i < Len(chunks) => chunks[i].to = chunks[i + 1].from
         /\ Len(calls) <= 2 * Len(chunks)
         /\ \A j \in DOMAIN calls :
              LET i == (j + 1) \div 2
              IN /\ calls[j].n = i - 1
                 /\ calls[j].op = IF j % 2 = 1 THEN "polly" ELSE "s3put"
                 /\ j % 2 = 1 =>
                      calls[j].ref.data =
                        Str(text.pre, chunks[i].to - chunks[i].from)
         /\ SynthReturned(p) =>
              /\ Len(calls) = 2 * Len(chunks)
              /\ Len(loc[p].ttsAudioUrl.urls) = Len(chunks)
              /\ loc[p].ttsAudioUrl.data = EmptyStr
              /\ \A i \in DOMAIN chunks :
                   /\ loc[p].ttsAudioUrl.urls[i].idx = i - 1
                   /\ \E e \in s3 : /\ e.key = loc[p].ttsAudioUrl.urls[i]
                                     /\ e.bytes.chunk = i

\* A text of 7500 characters was synthesized in chunks of 3000, 3000 and
\* 1500 and three references were returned.
C14_Witness ==
  \E p \in Procs :
    /\ SynthReturned(p)
    /\ SynthesizedText(p).len = 7500
    /\ Len(loc[p].textChunks) = 3
    /\ loc[p].textChunks[3].to - loc[p].textChunks[3].from = 1500
    /\ Len(loc[p].ttsAudioUrl.urls) = 3

\* generatePollyTTS threw in invocation p: the provider call failed or gave
\* no stream, or the upload failed.
SynthFailed(p) ==
  /\ Finished(p)
  /\ resp[p].details \in {"Polly request failed",
                          "Failed to generate audio with Polly",
                          "S3 upload failed"}

\* C15: when generatePollyTTS fails at chunk k the invocation ends in an
\* error, no chunk after k was sent to the provider or uploaded, chunk k has
\* no object, and the objects of the chunks before k are still in storage
\* with the audio uploaded for them.
C15_ChunkFailureKeepsEarlierUploads ==
  \A p \in Procs :
    SynthFailed(p) =>
      LET k == Cardinality(Calls(p, "polly"))
      IN /\ resp[p].status = 500
         /\ k \in 1..Len(loc[p].textChunks)
         /\ \A i \in Calls(p, "polly") \cup Calls(p, "s3put") :
              trace[p][i].n < k
         /\ Len(loc[p].audioUrls) = k - 1
         /\ Calls(p, "download") = {}
         /\ \A i \in 1..(k - 1) :
              \E e \in s3 : /\ e.key = loc[p].audioUrls[i]
                            /\ e.by = p
                            /\ e.bytes.chunk = i
         /\ Cardinality(s3) = k - 1

\* The upload of the third of three chunks failed after two uploads.
C15_Witness ==
  \E p \in Procs :
    /\ SynthFailed(p)
    /\ resp[p].details = "S3 upload failed"
    /\ Len(loc[p].textChunks) = 3
    /\ Cardinality(Calls(p, "polly")) = 3
    /\ Cardinality(s3) = 2

\* Invocation p obtained file f before position j of its trace: downloadAudio
\* wrote it or createSilentAudio made it.
ObtainedBefore(p, f, j) ==
  \E i \in 1..(j - 1) :
    /\ trace[p][i].op \in {"write", "silence"}
    /\ trace[p][i].path = f

\* C16: the output file is read only after an engine run of the mix that
\* exited with status 0; the engine is run only after the speech file and
\* the backing or silence file it is given were obtained; and after an
\* engine run that exited with failure the output is not read and the
\* invocation has ended in an error.
C16_ReadOnlyAfterSuccessfulMix ==
  \A p \in Procs :
    /\ \A i \in Calls(p, "read") :
         \E j \in Calls(p, "mix") :
           /\ j < i
           /\ trace[p][j].n = 0
           /\ trace[p][j].path = trace[p][i].path
    /\ \A j \in Calls(p, "mix") :
         /\ trace[p][j].cmd.ttsPath # trace[p][j].cmd.backingPath
         /\ ObtainedBefore(p, trace[p][j].cmd.ttsPath, j)
         /\ ObtainedBefore(p, trace[p][j].cmd.backingPath, j)
         /\ trace[p][j].n # 0 =>
              /\ Calls(p, "read") = {}
              /\ Finished(p)
              /\ resp[p].status = 500

\* The output was read after an engine run that exited with status 0.
C16_Witness ==
  \E p \in Procs :
    /\ Calls(p, "read") # {}
    /\ \E j \in Calls(p, "mix") : trace[p][j].n = 0
    /\ resp[p].status = 200

\* Invocation p passed the checks of route.ts lines 106-136.
PastValidation(p) ==
  \/ pc[p] \in {"synth", "fetchTts", "backing", "mix", "read", "cleanup"}
  \/ Len(trace[p]) > 1

\* The downloadAudio calls of invocation p for the speech.
SpeechDownloads(p) ==
  {i \in Calls(p, "download") : trace[p][i].path.prefix = "tts"}

\* n is Math.ceil(a / b), b # 0.
IsCeil(n, a, b) ==
  IF b > 0 THEN (n - 1) * b < a /\ a <= n * b
  ELSE (n - 1) * b > a /\ a >= n * b

\* C17: a request that passed validation calls generatePollyTTS exactly
\* when its text does not start with "data:audio".  With inline audio no
\* provider call and no upload is made and the reference downloaded for
\* the speech is the text itself; otherwise generatePollyTTS is called once,
\* with the text repeated ceil(900 / ttsDuration) times.
C17_SynthesisIffTextNotInline ==
  \A p \in Procs :
    /\ PastValidation(p) =>
         (Synthesizing(p) <=> ~StartsWithDataAudio(req[p].text))
    /\ StartsWithDataAudio(req[p].text) =>
         /\ Calls(p, "synthesize") \cup Calls(p, "polly")
              \cup Calls(p, "s3put") = {}
         /\ \A i \in SpeechDownloads(p) :
              trace[p][i].ref = Ref(req[p].text, <<>>)
    /\ Synthesizing(p) =>
         /\ Cardinality(Calls(p, "synthesize")) = 1
         /\ \E n \in 0..900 :
              /\ IsCeil(n, 900, req[p].ttsDuration)
              /\ SynthesizedText(p).len = n * req[p].text.len
              /\ n > 0 => SynthesizedText(p).pre = req[p].text.pre

\* A text of 250 characters lasting 30 seconds was synthesized 30 times
\* over.
C17_Witness ==
  \E p \in Procs :
    /\ Synthesizing(p)
    /\ req[p].text.len = 250
    /\ req[p].ttsDuration = 30
    /\ SynthesizedText(p).len = 7500
    /\ Calls(p, "polly") # {}

\* The calls of invocation p that carry a reference made of uploaded
\* objects' URLs.
UrlCalls(p, op) == {i \in Calls(p, op) : trace[p][i].ref.urls # <<>>}

\* C18: when generatePollyTTS uploaded more than one chunk, downloadAudio
\* is called once for the speech, with the join of all the URLs in order,
\* and every fetch and write for the speech carries that whole join: none
\* carries one URL or a part of them.
C18_JoinedReferenceFetchedWhole ==
  \A p \in Procs :
    (Len(loc[p].audioUrls) > 1 /\ SynthReturned(p)) =>
      /\ loc[p].ttsAudioUrl = Ref(EmptyStr, loc[p].audioUrls)
      /\ Cardinality(SpeechDownloads(p)) <= 1
      /\ pc[p] # "fetchTts" => Cardinality(SpeechDownloads(p)) = 1
      /\ Cardinality(UrlCalls(p, "fetch")) <= 1
      /\ \A i \in SpeechDownloads(p) \cup UrlCalls(p, "fetch")
                  \cup UrlCalls(p, "write") \cup UrlCalls(p, "download") :
           trace[p][i].ref = Ref(EmptyStr, loc[p].audioUrls)

\* Three chunks were uploaded and their join was fetched in one request.
C18_Witness ==
  \E p \in Procs :
    /\ Len(loc[p].audioUrls) = 3
    /\ \E i \in UrlCalls(p, "fetch") : Len(trace[p][i].ref.urls) = 3
    /\ Cardinality(SpeechDownloads(p)) = 1

\* The answer of the catch block for any failure: status 500 with the
\* error "Internal Server Error".
GenericInternalError(r) ==
  r.status = 500 /\ r.error = "Internal Server Error"

\* C19: when the probe of the engine fails the invocation makes no further
\* call and creates no file, and its answer is not the generic internal
\* error given for the other failures.
C19_ProbeFailureIsDistinctCondition ==
  \A p \in Procs :
    ProbeFailed(p) =>
      /\ Len(trace[p]) = 1
      /\ trace[p][1].op = "probe"
      /\ loc[p].created = {}
      /\ ~GenericInternalError(resp[p])

\* C20: within one invocation the speech path, the backing or silence path
\* and the output path, once allocated, are pairwise distinct whatever the
\* clock read when each was made, and no mix command names its output or
\* its speech input as another of its files.
C20_OwnPathsPairwiseDistinct ==
  \A p \in Procs :
    /\ Cardinality(TempPaths(p)) =
         Cardinality({f \in {"ttsAudioPath", "backingTrackPath", "outputPath"} :
                        loc[p][f] # NoPath})
    /\ \A c \in MixCommands(p) :
         /\ c.out \notin {c.ttsPath, c.backingPath}
         /\ c.ttsPath # c.backingPath

\* The three paths of one invocation were made at the same clock value.
C20_Witness ==
  \E p \in Procs :
    /\ Cardinality(TempPaths(p)) = 3
    /\ loc[p].ttsAudioPath.ts = loc[p].outputPath.ts
    /\ loc[p].backingTrackPath.prefix = "backing"
    /\ loc[p].backingTrackPath.ts = loc[p].outputPath.ts
    /\ MixCommands(p) # {}

====
